---------------------------- MODULE Spec2Model ----------------------------
(***************************************************************************)
(* Border support of the block editor (hooks/border.js): resolving named   *)
(* palette colours against the multi-origin palette (getMultiOriginColor), *)
(* hydrating the stored border attributes for the border control           *)
(* (getBorderObject), writing a border edit back to the block attributes   *)
(* (onBorderChange) and resetting the border (resetBorder,                 *)
(* resetBorderFilter).                                                     *)
(*                                                                         *)
(* JavaScript values are modelled as tagged records, so that a string, an  *)
(* object, an array and undefined can be told apart and compared:          *)
(*   [t |-> "undefined"]            undefined                              *)
(*   [t |-> "string", v |-> s]      the string s                           *)
(*   [t |-> "object", f |-> f]      an object; DOMAIN f is its own keys    *)
(*   [t |-> "array",  a |-> s]      an array holding the sequence s        *)
(*   [t |-> "TypeError"]            the call threw a TypeError             *)
(* A key that is present with the value undefined differs from an absent   *)
(* key, as it does in JavaScript.                                          *)
(***************************************************************************)
EXTENDS Naturals, Sequences, FiniteSets, TLC

VARIABLES
    colors,          \* the palette origins (useMultipleOriginColorsAndGradients)
    attributes,      \* the block attributes: borderColor, sideBorderColors, style
    hydratedBorder,  \* the value BorderPanel last handed to the border control
    call,            \* the last operation: its name, argument and prior state
    result           \* what the last operation returned (or TypeError)

vars == <<colors, attributes, hydratedBorder, call, result>>

---------------------------------------------------------------------------
(* JavaScript values *)

Undefined == [t |-> "undefined"]
TypeError == [t |-> "TypeError"]
Str(s) == [t |-> "string", v |-> s]
Obj(f) == [t |-> "object", f |-> f]
Arr(s) == [t |-> "array", a |-> s]
EmptyObject == Obj(<<>>)

IsObject(v) == v.t = "object"

\* o.k on an object, o?.k otherwise: an absent key reads as undefined.
Has(o, k) == IsObject(o) /\ k \in DOMAIN o.f
Get(o, k) == IF Has(o, k) THEN o.f[k] ELSE Undefined

\* ...o inside an object literal: undefined spreads no keys.
Spread(o) == IF IsObject(o) THEN o.f ELSE <<>>

\* { ...f, ...g }: the later keys win.
Merge(f, g) ==
    [k \in (DOMAIN f) \cup (DOMAIN g) |-> IF k \in DOMAIN g THEN g[k] ELSE f[k]]

\* The truthiness JavaScript's if, !, ?: and !! test.
Truthy(v) == v.t # "undefined" /\ v # Str("")

---------------------------------------------------------------------------
(* The palette *)

borderSides == <<"top", "right", "bottom", "left">>
Sides == {borderSides[i] : i \in DOMAIN borderSides}

\* getColorByProperty's inner some(): the first entry of one origin's colors
\* whose property is value; undefined when there is none.
RECURSIVE someColor(_, _, _, _)
someColor(list, i, property, value) ==
    IF i > Len(list) THEN Undefined
    ELSE IF ~IsObject(list[i]) THEN TypeError
    ELSE IF Get(list[i], property) = value THEN list[i]
    ELSE someColor(list, i + 1, property, value)

\* getColorByProperty's outer some(): origins in list order, stopping at the
\* first origin that holds a match.
RECURSIVE someOrigin(_, _, _, _)
someOrigin(origins, i, property, value) ==
    IF i > Len(origins) THEN Undefined
    ELSE IF ~IsObject(origins[i]) THEN TypeError
    ELSE IF Get(origins[i], "colors").t # "array" THEN TypeError
    ELSE LET matched == someColor(Get(origins[i], "colors").a, 1, property, value)
         IN  IF matched # Undefined THEN matched
             ELSE someOrigin(origins, i + 1, property, value)

\* The origins scanned from the last to the first.
getColorByPropertyLastOrigin(cols, property, value) ==
    IF cols.t # "array" THEN TypeError
    ELSE someOrigin([i \in 1..Len(cols.a) |-> cols.a[Len(cols.a) + 1 - i]],
                    1, property, value)

getColorByProperty(cols, property, value) ==
    IF cols.t # "array" THEN TypeError
    ELSE someOrigin(cols.a, 1, property, value)

\* A custom colour that is never looked up in the palette.
customColorObjectUnmatched(cols, customColor) ==
    IF ~Truthy(customColor) THEN Obj([color |-> Undefined])
    ELSE Obj([color |-> customColor])

\* The part of getMultiOriginColor after the named lookup.
customColorObject(cols, customColor) ==
    IF ~Truthy(customColor) THEN Obj([color |-> Undefined])
    ELSE LET colorObject == getColorByProperty(cols, "color", customColor)
         IN  IF colorObject = TypeError THEN TypeError
             ELSE IF Truthy(colorObject) THEN colorObject
             ELSE Obj([color |-> customColor])

\* getMultiOriginColor( { colors, namedColor, customColor } ): args is the
\* object it is called with.
getMultiOriginColor(args) ==
    LET cols == Get(args, "colors")
        namedColor == Get(args, "namedColor")
        customColor == Get(args, "customColor")
    IN  IF Truthy(namedColor)
        THEN LET colorObject == getColorByProperty(cols, "slug", namedColor)
             IN  IF colorObject = TypeError THEN TypeError
                 ELSE IF Truthy(colorObject) THEN colorObject
                 ELSE customColorObject(cols, customColor)
        ELSE customColorObject(cols, customColor)

---------------------------------------------------------------------------
(* Collaborators that live outside hooks/border.js *)

\* cleanEmptyObject (hooks/utils): cleans every nested object, drops the keys
\* left with an empty or undefined value, and gives undefined for an object
\* left with no key.
RECURSIVE cleanEmptyObject(_)
cleanEmptyObject(object) ==
    IF ~IsObject(object) THEN object
    ELSE LET cleaned == [k \in DOMAIN object.f |-> cleanEmptyObject(object.f[k])]
             kept == {k \in DOMAIN cleaned : Truthy(cleaned[k])}
         IN  IF kept = {} THEN Undefined
             ELSE Obj([k \in kept |-> cleaned[k]])

\* hasSplitBorders (components): the border value has a key that names a
\* side; an absent value has none.
hasSplitBorders(border) ==
    \E side \in Sides : side \in DOMAIN Spread(border)

\* setAttributes (block editor store): the update is merged over the block's
\* attributes.
setAttributes(attrs, update) == Obj(Merge(Spread(attrs), Spread(update)))

---------------------------------------------------------------------------
(* Hydration *)

\* The forEach of getBorderObject over Object.entries( sideBorderColors ):
\* keys is what is left to visit. Each entry writes its own key only, so the
\* order of the visit does not show in the result.
RECURSIVE hydrateSides(_, _, _, _)
hydrateSides(hydratedBorderStyles, keys, sideBorderColors, cols) ==
    IF keys = {} THEN Obj(hydratedBorderStyles)
    ELSE LET side == CHOOSE k \in keys : TRUE
             colorObject == getMultiOriginColor(
                 Obj([colors |-> cols, namedColor |-> sideBorderColors.f[side]]))
             color == Get(colorObject, "color")
             prior == IF side \in DOMAIN hydratedBorderStyles
                      THEN hydratedBorderStyles[side] ELSE Undefined
         IN  IF colorObject = TypeError THEN TypeError
             ELSE IF Truthy(color)
             THEN hydrateSides(
                      Merge(hydratedBorderStyles,
                            [k \in {side} |-> Obj(Merge(Spread(prior), [color |-> color]))]),
                      keys \ {side}, sideBorderColors, cols)
             ELSE hydrateSides(hydratedBorderStyles, keys \ {side},
                               sideBorderColors, cols)

\* The side branch starts from an empty object instead of the stored border.
getBorderObjectSidesOnly(attrs, cols) ==
    LET borderColor == Get(attrs, "borderColor")
        sideBorderColors == Get(attrs, "sideBorderColors")
        style == Get(attrs, "style")
        borderStyles == Get(IF Truthy(style) THEN style ELSE EmptyObject, "border")
        color == Get(getMultiOriginColor(
                         Obj([colors |-> cols, namedColor |-> borderColor])), "color")
    IN  IF Truthy(borderColor)
        THEN IF Truthy(color)
             THEN Obj(Merge(Spread(borderStyles), [color |-> color]))
             ELSE borderStyles
        ELSE IF Truthy(sideBorderColors)
        THEN hydrateSides(<<>>, DOMAIN Spread(sideBorderColors),
                          sideBorderColors, cols)
        ELSE borderStyles

\* The side colours are looked at before the flat borderColor.
getBorderObjectSidesFirst(attrs, cols) ==
    LET borderColor == Get(attrs, "borderColor")
        sideBorderColors == Get(attrs, "sideBorderColors")
        style == Get(attrs, "style")
        borderStyles == Get(IF Truthy(style) THEN style ELSE EmptyObject, "border")
        color == Get(getMultiOriginColor(
                         Obj([colors |-> cols, namedColor |-> borderColor])), "color")
    IN  IF Truthy(sideBorderColors)
        THEN hydrateSides(Spread(borderStyles), DOMAIN Spread(sideBorderColors),
                          sideBorderColors, cols)
        ELSE IF Truthy(borderColor) /\ Truthy(color)
        THEN Obj(Merge(Spread(borderStyles), [color |-> color]))
        ELSE borderStyles

getBorderObject(attrs, cols) ==
    IF ~IsObject(attrs) THEN TypeError
    ELSE
    LET borderColor == Get(attrs, "borderColor")
        sideBorderColors == Get(attrs, "sideBorderColors")
        style == Get(attrs, "style")
        borderStyles == Get(IF Truthy(style) THEN style ELSE EmptyObject, "border")
    IN  IF Truthy(borderColor)
        THEN LET colorObject == getMultiOriginColor(
                     Obj([colors |-> cols, namedColor |-> borderColor]))
                 color == Get(colorObject, "color")
             IN  IF colorObject = TypeError THEN TypeError
                 ELSE IF Truthy(color)
                 THEN Obj(Merge(Spread(borderStyles), [color |-> color]))
                 ELSE borderStyles
        ELSE IF Truthy(sideBorderColors)
        THEN hydrateSides(Spread(borderStyles), DOMAIN Spread(sideBorderColors),
                          sideBorderColors, cols)
        ELSE borderStyles

---------------------------------------------------------------------------
(* Edits and resets *)

\* The forEach over borderSides in onBorderChange's split branch, from side
\* i on. acc holds newBorderStyles and newSideBorderColors (as key maps).
RECURSIVE filterSideColors(_, _, _, _)
filterSideColors(acc, i, newBorder, cols) ==
    IF i > Len(borderSides) THEN acc
    ELSE LET side == borderSides[i]
             customColor == Get(Get(newBorder, side), "color")
             colorObject == getMultiOriginColor(
                 Obj([colors |-> cols, customColor |-> customColor]))
         IN  IF ~Truthy(customColor)
             THEN filterSideColors(acc, i + 1, newBorder, cols)
             ELSE IF colorObject = TypeError THEN TypeError
             ELSE IF Truthy(Get(colorObject, "slug"))
             THEN filterSideColors(
                      [newSideBorderColors |->
                           Merge(acc.newSideBorderColors,
                                 [k \in {side} |-> Get(colorObject, "slug")]),
                       newBorderStyles |->
                           Merge(acc.newBorderStyles,
                                 [k \in {side} |->
                                      Obj(Merge(Spread(acc.newBorderStyles[side]),
                                                [color |-> Undefined]))])],
                      i + 1, newBorder, cols)
             ELSE filterSideColors(acc, i + 1, newBorder, cols)

\* The new border value is laid over the whole prior border.
borderUpdateOverPriorBorder(style, newBorderStyles, newBorderColor, newSideBorderColors) ==
    Obj([style |->
             cleanEmptyObject(Obj(Merge(
                 Spread(style),
                 [border |-> Obj(Merge(Spread(Get(style, "border")),
                                       newBorderStyles))]))),
         borderColor |-> newBorderColor,
         sideBorderColors |-> newSideBorderColors])

\* The new style is written as built, without cleanEmptyObject.
borderUpdateUncleaned(style, newBorderStyles, newBorderColor, newSideBorderColors) ==
    Obj([style |->
             Obj(Merge(
                 Spread(style),
                 [border |-> Obj(Merge(
                      [radius |-> Get(Get(style, "border"), "radius")],
                      newBorderStyles))])),
         borderColor |-> newBorderColor,
         sideBorderColors |-> newSideBorderColors])

\* The object onBorderChange hands to setAttributes, given the named colours
\* and border styles it has filtered out of the new value.
borderUpdate(style, newBorderStyles, newBorderColor, newSideBorderColors) ==
    Obj([style |->
             cleanEmptyObject(Obj(Merge(
                 Spread(style),
                 [border |-> Obj(Merge(
                      [radius |-> Get(Get(style, "border"), "radius")],
                      newBorderStyles))]))),
         borderColor |-> newBorderColor,
         sideBorderColors |-> newSideBorderColors])

\* The flat branch records the slug but keeps the literal colour in the style.
onBorderChangeKeepingLiteral(attrs, cols, newBorder) ==
    LET style == Get(attrs, "style")
        filtered == filterSideColors(
            [newBorderStyles |->
                 [side \in Sides |-> Obj(Spread(Get(newBorder, side)))],
             newSideBorderColors |-> <<>>],
            1, newBorder, cols)
        colorObject == getMultiOriginColor(
            Obj([colors |-> cols, customColor |-> Get(newBorder, "color")]))
    IN  IF hasSplitBorders(newBorder)
        THEN borderUpdate(style, filtered.newBorderStyles, Undefined,
                          Obj(filtered.newSideBorderColors))
        ELSE borderUpdate(style, Spread(newBorder),
                          IF Truthy(Get(newBorder, "color"))
                          THEN Get(colorObject, "slug") ELSE Undefined,
                          Undefined)

\* onBorderChange( newBorder ) in a panel rendered with attrs and cols: the
\* object it hands to setAttributes, or TypeError.
onBorderChange(attrs, cols, newBorder) ==
    LET style == Get(attrs, "style")
    IN  IF hasSplitBorders(newBorder)
        THEN LET filtered == filterSideColors(
                     [newBorderStyles |->
                          [side \in Sides |-> Obj(Spread(Get(newBorder, side)))],
                      newSideBorderColors |-> <<>>],
                     1, newBorder, cols)
             IN  IF filtered = TypeError THEN TypeError
                 ELSE borderUpdate(style, filtered.newBorderStyles, Undefined,
                                   Obj(filtered.newSideBorderColors))
        ELSE IF Truthy(Get(newBorder, "color"))
        THEN LET colorObject == getMultiOriginColor(
                     Obj([colors |-> cols, customColor |-> Get(newBorder, "color")]))
             IN  IF colorObject = TypeError THEN TypeError
                 ELSE IF Truthy(Get(colorObject, "slug"))
                 THEN borderUpdate(style,
                                   Merge(Spread(newBorder), [color |-> Undefined]),
                                   Get(colorObject, "slug"), Undefined)
                 ELSE borderUpdate(style, Spread(newBorder), Undefined, Undefined)
        ELSE borderUpdate(style, Spread(newBorder), Undefined, Undefined)

\* resetBorder( { attributes = {}, setAttributes } ): the object it hands to
\* setAttributes.
resetBorder(attrs) ==
    LET style == Get(attrs, "style")
    IN  Obj([borderColor |-> Undefined,
             sideBorderColors |-> Undefined,
             style |-> Obj(Merge(
                 Spread(style),
                 [border |-> cleanEmptyObject(
                      Obj([radius |-> Get(Get(style, "border"), "radius")]))]))])

\* The border is reset to an empty object, radius included.
resetBorderFilterClearingRadius(newAttributes) ==
    Obj(Merge(
        Spread(newAttributes),
        [borderColor |-> Undefined,
         sideBorderColors |-> Undefined,
         style |-> Obj(Merge(Spread(Get(newAttributes, "style")),
                             [border |-> EmptyObject]))]))

\* resetBorderFilter( newAttributes ): the attributes it returns.
resetBorderFilter(newAttributes) ==
    IF ~IsObject(newAttributes) THEN TypeError
    ELSE Obj(Merge(
             Spread(newAttributes),
             [borderColor |-> Undefined,
              sideBorderColors |-> Undefined,
              style |-> Obj(Merge(
                  Spread(Get(newAttributes, "style")),
                  [border |-> Obj([radius |->
                       Get(Get(Get(newAttributes, "style"), "border"), "radius")])]))]))

---------------------------------------------------------------------------
(* Bounds and the values the operations are driven with *)

\* The most palette entries, over all origins together.
MaxPaletteColors == 2

Slugs == {"primary", "accent"}
LiteralColors == {"#111111", "#222222"}
OriginNames == <<"default", "theme", "user">>

SeqsUpTo(S, n) == UNION {[1..k -> S] : k \in 0..n}

ColorEntries == {Obj([slug |-> Str(s), color |-> Str(c)]) : s \in Slugs, c \in LiteralColors}

\* The origins list holding the given colour lists, named in the order of
\* OriginNames. The host leaves out an origin that has no colour.
OriginsOf(lists) ==
    Arr([i \in DOMAIN lists |->
            Obj([name |-> Str(OriginNames[i]), colors |-> Arr(lists[i])])])

RECURSIVE CountColors(_, _)
CountColors(lists, i) ==
    IF i > Len(lists) THEN 0 ELSE Len(lists[i]) + CountColors(lists, i + 1)

Palettes ==
    {OriginsOf(lists) :
        lists \in {l \in SeqsUpTo(SeqsUpTo(ColorEntries, MaxPaletteColors) \ {<<>>},
                                  Len(OriginNames)) :
                      CountColors(l, 1) <= MaxPaletteColors}}

\* The most sides a split border value names.
MaxSplitSides == 1

Widths == {"2px"}

\* { color?, width? }: one side's border, or a flat border.
WellTyped(f) ==
    /\ "color" \in DOMAIN f => f["color"].v \in LiteralColors
    /\ "width" \in DOMAIN f => f["width"].v \in Widths

SideBorders ==
    {Obj(f) : f \in {g \in UNION {[K -> {Str(v) : v \in LiteralColors \cup Widths}] :
                                      K \in SUBSET {"color", "width"}} : WellTyped(g)}}

FlatBorders == {Undefined} \cup SideBorders

SplitBorders ==
    {Obj(f) : f \in UNION {[K -> SideBorders] :
                               K \in {D \in SUBSET Sides :
                                         Cardinality(D) \in 1..MaxSplitSides}}}

NewBorders == FlatBorders \cup SplitBorders

\* style.border as it may be stored: a border value, with or without a
\* radius beside it (resetBorderFilter leaves a radius key that is undefined).
RadiusParts == {<<>>, [radius |-> Undefined], [radius |-> Str("4px")]}

StoredBorders ==
    {Undefined} \cup
    {Obj(Merge(r, Spread(b))) : r \in RadiusParts, b \in NewBorders}

\* What else a style may hold beside its border.
OtherStyles ==
    {<<>>, [color |-> Obj([text |-> Str("#111111")])], [spacing |-> EmptyObject]}

Styles ==
    {Undefined} \cup
    {Obj(Merge(o, [border |-> b])) : o \in OtherStyles, b \in StoredBorders}

SideBorderColors ==
    {Undefined} \cup
    {Obj(f) : f \in UNION {[K -> {Str(v) : v \in Slugs}] :
                               K \in {D \in SUBSET Sides :
                                         Cardinality(D) <= MaxSplitSides}}}

NamedColors == {Undefined} \cup {Str(s) : s \in Slugs}
CustomColors == {Undefined} \cup {Str(c) : c \in LiteralColors}

---------------------------------------------------------------------------
(* The palette read as one list: what a scan in origin order, then position *)
(* order, meets. Used to state the properties, not by the operations.       *)

Positions(cols) ==
    UNION {{<<i, j>> : j \in 1..Len(Get(cols.a[i], "colors").a)} : i \in 1..Len(cols.a)}

Before(p, q) == p[1] < q[1] \/ (p[1] = q[1] /\ p[2] < q[2])

EntryAt(cols, p) == Get(cols.a[p[1]], "colors").a[p[2]]

Matches(cols, property, value) ==
    {p \in Positions(cols) : Get(EntryAt(cols, p), property) = value}

FirstMatch(cols, property, value) ==
    EntryAt(cols, CHOOSE p \in Matches(cols, property, value) :
                      \A q \in Matches(cols, property, value) : q = p \/ Before(p, q))

---------------------------------------------------------------------------
(* Actions *)

NoCall == [op |-> "none", arg |-> Undefined, radius |-> Undefined]

\* A block whose border was never set, in a panel rendered with some palette.
Init ==
    /\ colors \in Palettes
    /\ attributes = EmptyObject
    /\ hydratedBorder = getBorderObject(attributes, colors)
    /\ call = NoCall
    /\ result = Undefined

\* A call of the exported getMultiOriginColor.
Resolve(namedColor, customColor) ==
    LET args == Obj([colors |-> colors, namedColor |-> namedColor,
                     customColor |-> customColor])
    IN  /\ call' = [op |-> "getMultiOriginColor", arg |-> args, radius |-> Undefined]
        /\ result' = getMultiOriginColor(args)
        /\ UNCHANGED <<colors, attributes, hydratedBorder>>

\* onBorderChange( newBorder ), then the render that follows setAttributes.
\* A handler that throws sets nothing.
OnBorderChange(newBorder) ==
    /\ call' = [op |-> "onBorderChange", arg |-> newBorder,
                radius |-> Get(Get(Get(attributes, "style"), "border"), "radius")]
    /\ result' = onBorderChange(attributes, colors, newBorder)
    /\ attributes' = IF result' = TypeError THEN attributes
                     ELSE setAttributes(attributes, result')
    /\ hydratedBorder' = getBorderObject(attributes', colors)
    /\ UNCHANGED colors

\* The panel item's onDeselect: resetBorder( props ).
ResetBorder ==
    /\ call' = [op |-> "resetBorder", arg |-> Undefined,
                radius |-> Get(Get(Get(attributes, "style"), "border"), "radius")]
    /\ result' = resetBorder(attributes)
    /\ attributes' = setAttributes(attributes, result')
    /\ hydratedBorder' = getBorderObject(attributes', colors)
    /\ UNCHANGED colors

\* The panel's reset all: the attributes become what resetBorderFilter
\* returns for them.
ResetAll ==
    /\ call' = [op |-> "resetBorderFilter", arg |-> Undefined,
                radius |-> Get(Get(Get(attributes, "style"), "border"), "radius")]
    /\ result' = resetBorderFilter(attributes)
    /\ attributes' = IF result' = TypeError THEN attributes
                     ELSE setAttributes(attributes, result')
    /\ hydratedBorder' = getBorderObject(attributes', colors)
    /\ UNCHANGED colors

\* A render of BorderPanel: getBorderObject( attributes, colors ).
Render ==
    /\ call' = [op |-> "getBorderObject", arg |-> attributes, radius |-> Undefined]
    /\ result' = getBorderObject(attributes, colors)
    /\ hydratedBorder' = result'
    /\ UNCHANGED <<colors, attributes>>

\* The border control hands the value it was given back to onBorderChange,
\* and the panel renders again.
RoundTrip ==
    /\ hydratedBorder # TypeError
    /\ call' = [op |-> "roundTrip", arg |-> hydratedBorder, radius |-> Undefined]
    /\ result' = onBorderChange(attributes, colors, hydratedBorder)
    /\ attributes' = IF result' = TypeError THEN attributes
                     ELSE setAttributes(attributes, result')
    /\ hydratedBorder' = getBorderObject(attributes', colors)
    /\ UNCHANGED colors

NextResolve == \E n \in NamedColors, c \in CustomColors : Resolve(n, c)

SpecResolve == Init /\ [][NextResolve]_vars

\* An editing session on a block whose border was never set.
Next ==
    \/ \E newBorder \in NewBorders : OnBorderChange(newBorder)
    \/ ResetBorder
    \/ ResetAll

Spec == Init /\ [][Next]_vars

\* One edit or reset of a block saved with any style.
InitEdit ==
    /\ colors \in Palettes
    /\ attributes \in {Obj([style |-> style]) : style \in Styles}
    /\ hydratedBorder = getBorderObject(attributes, colors)
    /\ call = NoCall
    /\ result = Undefined

NextEdit ==
    /\ call = NoCall
    /\ \/ \E newBorder \in NewBorders : OnBorderChange(newBorder)
       \/ ResetBorder
       \/ ResetAll

SpecEdit == InitEdit /\ [][NextEdit]_vars

\* One render of a block saved with any attributes.
InitHydrate ==
    /\ colors \in Palettes
    /\ attributes \in
           {Obj([borderColor |-> borderColor,
                 sideBorderColors |-> sideBorderColors,
                 style |-> style]) :
               borderColor \in NamedColors,
               sideBorderColors \in SideBorderColors,
               style \in {Undefined} \cup {Obj([border |-> b]) : b \in StoredBorders}}
    /\ hydratedBorder = getBorderObject(attributes, colors)
    /\ call = NoCall
    /\ result = Undefined

NextHydrate == call = NoCall /\ Render

SpecHydrate == InitHydrate /\ [][NextHydrate]_vars

\* One round trip through the border control of a block saved in one
\* representation (flat: no side colours and no side entry in style.border;
\* split: no borderColor and no flat colour), with a palette in which no
\* origin holds a slug twice.
OneRepresentation(attrs) ==
    \/ /\ Get(attrs, "sideBorderColors") = Undefined
       /\ \A side \in Sides : ~Has(Get(Get(attrs, "style"), "border"), side)
    \/ /\ Get(attrs, "borderColor") = Undefined
       /\ ~Has(Get(Get(attrs, "style"), "border"), "color")

SlugsUniqueInOrigins(cols) ==
    \A p, q \in Positions(cols) :
        (p[1] = q[1] /\ Get(EntryAt(cols, p), "slug") = Get(EntryAt(cols, q), "slug"))
            => p = q

InitRoundTrip ==
    /\ InitHydrate
    /\ OneRepresentation(attributes)
    /\ SlugsUniqueInOrigins(colors)

NextRoundTrip == call = NoCall /\ RoundTrip

SpecRoundTrip == InitRoundTrip /\ [][NextRoundTrip]_vars

\* Calls with parts of their input absent: no origins list, an origin with
\* no colors list, attributes with keys missing.
PartialPalettes ==
    {Undefined} \cup
    {Arr(origins) :
        origins \in SeqsUpTo(
            {Obj([name |-> Str("theme")]),
             Obj([name |-> Str("theme"),
                  colors |-> Arr(<<Obj([slug |-> Str("primary"),
                                        color |-> Str("#111111")])>>)])},
            Len(OriginNames))}

PartialAttributes ==
    {Obj([k \in K |-> full.f[k]]) :
        K \in SUBSET {"borderColor", "sideBorderColors", "style"},
        full \in {Obj([borderColor |-> Str("primary"),
                       sideBorderColors |-> Obj([top |-> Str("primary")]),
                       style |-> style]) :
                     style \in {EmptyObject,
                                Obj([border |-> Obj([color |-> Str("#111111")])]),
                                Obj([border |-> Obj([top |-> EmptyObject])])}}}

InitTotal ==
    /\ colors \in PartialPalettes
    /\ attributes \in PartialAttributes
    /\ hydratedBorder = getBorderObject(attributes, colors)
    /\ call = NoCall
    /\ result = Undefined

NextTotal ==
    /\ call = NoCall
    /\ \/ \E n \in NamedColors, c \in CustomColors : Resolve(n, c)
       \/ Render
       \/ \E newBorder \in NewBorders : OnBorderChange(newBorder)

SpecTotal == InitTotal /\ [][NextTotal]_vars

---------------------------------------------------------------------------
(* Objects with identity                                                    *)
(*                                                                          *)
(* The operators above compute values. To tell a write into a copy from a   *)
(* write into the object that was passed in, getBorderObject and            *)
(* onBorderChange are modelled here statement by statement over a heap: a   *)
(* function from addresses to cells. A cell is an object or an array whose  *)
(* object and array members are references to other cells. An address is    *)
(* the path that names the object: <<"attributes", "style", "border">> for  *)
(* an object that was passed in, <<"new", ...>> for one an operation        *)
(* creates, named after the variable it is first bound to.                  *)

Ref(p) == [t |-> "ref", p |-> p]
IsRef(v) == v.t = "ref"
IsCompound(v) == v.t \in {"object", "array"}

\* The member k of the object at p, as its cell holds it.
Member(p, k, v) == IF IsCompound(v) THEN Ref(Append(p, k)) ELSE v

\* The cell of the object or array v placed at p.
Cell(p, v) ==
    IF IsObject(v) THEN Obj([k \in DOMAIN v.f |-> Member(p, k, v.f[k])])
    ELSE Arr([i \in DOMAIN v.a |-> Member(p, ToString(i), v.a[i])])

\* The cells of v and of every object and array within it, with their
\* addresses.
RECURSIVE Cells(_, _)
Cells(p, v) ==
    IF ~IsCompound(v) THEN {}
    ELSE {<<p, Cell(p, v)>>} \cup
         (IF IsObject(v)
          THEN UNION {Cells(Append(p, k), v.f[k]) : k \in DOMAIN v.f}
          ELSE UNION {Cells(Append(p, ToString(i)), v.a[i]) : i \in DOMAIN v.a})

\* The heap that holds v, and nothing else, under the name given.
Store(name, v) ==
    LET cells == Cells(<<name>>, v)
    IN  [p \in {c[1] : c \in cells} |-> (CHOOSE c \in cells : c[1] = p)[2]]

\* What a variable bound to the stored v holds.
Root(name, v) == Member(<<>>, name, v)

\* The value a reference stands for: a deep copy of what it reaches.
RECURSIVE Load(_, _)
Load(h, v) ==
    IF ~IsRef(v) THEN v
    ELSE IF IsObject(h[v.p])
    THEN Obj([k \in DOMAIN h[v.p].f |-> Load(h, h[v.p].f[k])])
    ELSE Arr([i \in DOMAIN h[v.p].a |-> Load(h, h[v.p].a[i])])

\* v.k and v?.k
Field(h, v, k) == IF IsRef(v) THEN Get(h[v.p], k) ELSE Undefined

\* ...v inside an object literal: the members are copied, the objects they
\* refer to are shared.
Copy(h, v) == IF IsRef(v) THEN Spread(h[v.p]) ELSE <<>>

\* An object literal: a new cell at p.
Allocate(h, p, cell) == Merge(h, [q \in {p} |-> cell])

\* target[ k ] = v: a write into the cell target refers to.
Assign(h, target, k, v) ==
    [h EXCEPT ![target.p] = Obj(Merge(@.f, [j \in {k} |-> v]))]

\* The forEach over Object.entries( sideBorderColors ) in getBorderObject,
\* for the entries in keys: the heap it leaves and hydratedBorderStyles.
RECURSIVE hydrateSidesOnHeap(_, _, _, _, _)
hydrateSidesOnHeap(h, hydratedBorderStyles, keys, sideBorderColors, cols) ==
    IF keys = {} THEN [heap |-> h, value |-> hydratedBorderStyles]
    ELSE LET side == CHOOSE k \in keys : TRUE
             colorObject == getMultiOriginColor(
                 Obj([colors |-> Load(h, cols),
                      namedColor |-> Field(h, sideBorderColors, side)]))
             color == Get(colorObject, "color")
             hydratedSide == Ref(<<"new", "hydratedBorderStyles", side>>)
         IN  IF colorObject = TypeError THEN [heap |-> h, value |-> TypeError]
             ELSE IF Truthy(color)
             THEN hydrateSidesOnHeap(
                      Assign(Allocate(h, hydratedSide.p,
                                      Obj(Merge(Copy(h, Field(h, hydratedBorderStyles, side)),
                                                [color |-> color]))),
                             hydratedBorderStyles, side, hydratedSide),
                      hydratedBorderStyles, keys \ {side}, sideBorderColors, cols)
             ELSE hydrateSidesOnHeap(h, hydratedBorderStyles, keys \ {side},
                                     sideBorderColors, cols)

\* getBorderObject( attributes, colors ) on references: the heap it leaves
\* and the value it returns, which is style.border itself where no colour
\* is laid over it.
getBorderObjectOnHeap(h, attrs, cols) ==
    IF ~IsRef(attrs) THEN [heap |-> h, value |-> TypeError]
    ELSE
    LET borderColor == Field(h, attrs, "borderColor")
        sideBorderColors == Field(h, attrs, "sideBorderColors")
        style == Field(h, attrs, "style")
        borderStyles == Field(h, style, "border")
        hydratedBorderStyles == Ref(<<"new", "hydratedBorderStyles">>)
    IN  IF Truthy(borderColor)
        THEN LET colorObject == getMultiOriginColor(
                     Obj([colors |-> Load(h, cols), namedColor |-> borderColor]))
                 color == Get(colorObject, "color")
             IN  IF colorObject = TypeError THEN [heap |-> h, value |-> TypeError]
                 ELSE IF Truthy(color)
                 THEN [heap |-> Allocate(h, hydratedBorderStyles.p,
                                         Obj(Merge(Copy(h, borderStyles),
                                                   [color |-> color]))),
                       value |-> hydratedBorderStyles]
                 ELSE [heap |-> h, value |-> borderStyles]
        ELSE IF Truthy(sideBorderColors)
        THEN hydrateSidesOnHeap(
                 Allocate(h, hydratedBorderStyles.p, Obj(Copy(h, borderStyles))),
                 hydratedBorderStyles, DOMAIN Copy(h, sideBorderColors),
                 sideBorderColors, cols)
        ELSE [heap |-> h, value |-> borderStyles]

\* The forEach over borderSides in onBorderChange's split branch, from side
\* i on: the heap it leaves, or TypeError.
RECURSIVE filterSideColorsOnHeap(_, _, _, _, _, _)
filterSideColorsOnHeap(h, newBorderStyles, newSideBorderColors, i, newBorder, cols) ==
    IF i > Len(borderSides) THEN h
    ELSE LET side == borderSides[i]
             customColor == Field(h, Field(h, newBorder, side), "color")
             colorObject == getMultiOriginColor(
                 Obj([colors |-> Load(h, cols), customColor |-> customColor]))
         IN  IF ~Truthy(customColor)
             THEN filterSideColorsOnHeap(h, newBorderStyles, newSideBorderColors,
                                         i + 1, newBorder, cols)
             ELSE IF colorObject = TypeError THEN TypeError
             ELSE IF Truthy(Get(colorObject, "slug"))
             THEN filterSideColorsOnHeap(
                      Assign(Assign(h, newSideBorderColors, side,
                                    Get(colorObject, "slug")),
                             Field(h, newBorderStyles, side), "color", Undefined),
                      newBorderStyles, newSideBorderColors, i + 1, newBorder, cols)
             ELSE filterSideColorsOnHeap(h, newBorderStyles, newSideBorderColors,
                                         i + 1, newBorder, cols)

\* The split branch keeps the first copy { ...newBorder }, whose sides are
\* the sides of the object passed in.
onBorderChangeOnHeapSharingSides(h, attrs, cols, newBorder) ==
    LET style == Field(h, attrs, "style")
        newBorderStyles == Ref(<<"new", "newBorderStyles">>)
        newSideBorderColors == Ref(<<"new", "newSideBorderColors">>)
        copied == Allocate(h, newBorderStyles.p, Obj(Copy(h, newBorder)))
        filtered == filterSideColorsOnHeap(
            Allocate(copied, newSideBorderColors.p, EmptyObject),
            newBorderStyles, newSideBorderColors, 1, newBorder, cols)
        colorObject == getMultiOriginColor(
            Obj([colors |-> Load(h, cols),
                 customColor |-> Field(h, newBorder, "color")]))
        cleared == IF Truthy(Field(h, newBorder, "color"))
                      /\ Truthy(Get(colorObject, "slug"))
                   THEN Assign(copied, newBorderStyles, "color", Undefined)
                   ELSE copied
    IN  IF hasSplitBorders(Load(h, newBorder))
        THEN [heap |-> filtered,
              value |-> borderUpdate(Load(filtered, style),
                                     Spread(Load(filtered, newBorderStyles)),
                                     Undefined,
                                     Load(filtered, newSideBorderColors))]
        ELSE [heap |-> cleared,
              value |-> borderUpdate(Load(cleared, style),
                                     Spread(Load(cleared, newBorderStyles)),
                                     IF Truthy(Field(h, newBorder, "color"))
                                     THEN Get(colorObject, "slug") ELSE Undefined,
                                     Undefined)]

\* onBorderChange( newBorder ) on references, in a panel rendered with attrs
\* and cols: the heap it leaves and the object it hands to setAttributes.
onBorderChangeOnHeap(h, attrs, cols, newBorder) ==
    LET style == Field(h, attrs, "style")
        newBorderStyles == Ref(<<"new", "newBorderStyles">>)
        splitBorderStyles == Ref(<<"new", "splitBorderStyles">>)
        newSideBorderColors == Ref(<<"new", "newSideBorderColors">>)
        copied == Allocate(h, newBorderStyles.p, Obj(Copy(h, newBorder)))
    IN  IF hasSplitBorders(Load(h, newBorder))
        THEN LET rebuilt ==
                     Merge(Allocate(copied, splitBorderStyles.p,
                                    Obj([side \in Sides |->
                                            Ref(Append(splitBorderStyles.p, side))])),
                           [p \in {Append(splitBorderStyles.p, side) : side \in Sides} |->
                               Obj(Copy(h, Field(h, newBorder, p[3])))])
                 filtered == filterSideColorsOnHeap(
                     Allocate(rebuilt, newSideBorderColors.p, EmptyObject),
                     splitBorderStyles, newSideBorderColors, 1, newBorder, cols)
             IN  IF filtered = TypeError THEN [heap |-> h, value |-> TypeError]
                 ELSE [heap |-> filtered,
                       value |-> borderUpdate(Load(filtered, style),
                                              Spread(Load(filtered, splitBorderStyles)),
                                              Undefined,
                                              Load(filtered, newSideBorderColors))]
        ELSE IF Truthy(Field(h, newBorder, "color"))
        THEN LET colorObject == getMultiOriginColor(
                     Obj([colors |-> Load(h, cols),
                          customColor |-> Field(h, newBorder, "color")]))
                 cleared == Assign(copied, newBorderStyles, "color", Undefined)
             IN  IF colorObject = TypeError THEN [heap |-> h, value |-> TypeError]
                 ELSE IF Truthy(Get(colorObject, "slug"))
                 THEN [heap |-> cleared,
                       value |-> borderUpdate(Load(cleared, style),
                                              Spread(Load(cleared, newBorderStyles)),
                                              Get(colorObject, "slug"), Undefined)]
                 ELSE [heap |-> copied,
                       value |-> borderUpdate(Load(copied, style),
                                              Spread(Load(copied, newBorderStyles)),
                                              Undefined, Undefined)]
        ELSE [heap |-> copied,
              value |-> borderUpdate(Load(copied, style),
                                     Spread(Load(copied, newBorderStyles)),
                                     Undefined, Undefined)]

\* The objects a call is passed: the block attributes, the origins list
\* and, for an edit, the new border value.
Passed(newBorder) ==
    Merge(Merge(Store("attributes", attributes), Store("colors", colors)),
          Store("newBorder", newBorder))

\* A render of BorderPanel, on references. The call records the heap before
\* it and what getBorderObject returned with the heap it left.
RenderOnHeap ==
    /\ call' = [op |-> "getBorderObjectOnHeap", arg |-> attributes,
                radius |-> Undefined,
                before |-> Passed(Undefined),
                returned |-> getBorderObjectOnHeap(
                    Passed(Undefined), Root("attributes", attributes),
                    Root("colors", colors))]
    /\ result' = Load(call'.returned.heap, call'.returned.value)
    /\ hydratedBorder' = result'
    /\ UNCHANGED <<colors, attributes>>

\* onBorderChange( newBorder ) on references, then the render that follows
\* setAttributes. The block editor stores the update in a new attributes
\* object; the one the handler was rendered with stays in the heap.
EditOnHeap(newBorder) ==
    /\ call' = [op |-> "onBorderChangeOnHeap", arg |-> newBorder,
                radius |-> Get(Get(Get(attributes, "style"), "border"), "radius"),
                before |-> Passed(newBorder),
                returned |-> onBorderChangeOnHeap(
                    Passed(newBorder), Root("attributes", attributes),
                    Root("colors", colors), Root("newBorder", newBorder))]
    /\ result' = call'.returned.value
    /\ attributes' = IF result' = TypeError THEN attributes
                     ELSE setAttributes(attributes, result')
    /\ hydratedBorder' = getBorderObject(attributes', colors)
    /\ UNCHANGED colors

\* One edit, on references, of a block whose border was never set or was
\* saved with literal colours, and the render that follows it.
InitHeap ==
    /\ colors \in Palettes
    /\ attributes \in
           {EmptyObject} \cup
           {Obj([style |-> Obj([border |-> b])]) : b \in NewBorders \ {Undefined}}
    /\ hydratedBorder = getBorderObject(attributes, colors)
    /\ call = NoCall
    /\ result = Undefined

NextHeap ==
    \/ call = NoCall /\ \E newBorder \in NewBorders : EditOnHeap(newBorder)
    \/ call.op = "onBorderChangeOnHeap" /\ RenderOnHeap

SpecHeap == InitHeap /\ [][NextHeap]_vars

---------------------------------------------------------------------------
(* Properties of getMultiOriginColor, under SpecResolve *)

Resolved == call.op = "getMultiOriginColor"

\* C1: called with a namedColor that is the slug of some palette entry,
\* getMultiOriginColor returns the first entry with that slug, origins taken
\* in list order and the entries of an origin in position order, whatever
\* customColor it is also given.
C1_NamedColorFirstMatch ==
    Resolved =>
        LET namedColor == Get(call.arg, "namedColor")
        IN  (namedColor # Undefined /\ Matches(colors, "slug", namedColor) # {})
                => result = FirstMatch(colors, "slug", namedColor)

\* A resolved slug that two origins define with different colours, called
\* together with a customColor that another entry holds.
C1_Witness ==
    /\ Resolved
    /\ Cardinality(Matches(colors, "slug", Get(call.arg, "namedColor"))) = 2
    /\ Len(colors.a) = 2
    /\ Get(call.arg, "customColor") # Undefined
    /\ Get(call.arg, "customColor") # Get(result, "color")
    /\ Matches(colors, "color", Get(call.arg, "customColor")) # {}
    /\ result = FirstMatch(colors, "slug", Get(call.arg, "namedColor"))

\* C2: with namedColor absent or the slug of no entry, getMultiOriginColor
\* returns { color: undefined } when customColor is absent; otherwise the
\* first entry (origin order, then position) whose color is customColor, and
\* { color: customColor } with no slug key when no entry has that color.
C2_CustomColorFallback ==
    Resolved =>
        LET namedColor == Get(call.arg, "namedColor")
            customColor == Get(call.arg, "customColor")
        IN  (namedColor = Undefined \/ Matches(colors, "slug", namedColor) = {})
                => /\ customColor = Undefined
                        => result = Obj([color |-> Undefined])
                   /\ (customColor # Undefined
                          /\ Matches(colors, "color", customColor) # {})
                        => result = FirstMatch(colors, "color", customColor)
                   /\ (customColor # Undefined
                          /\ Matches(colors, "color", customColor) = {})
                        => /\ result = Obj([color |-> customColor])
                           /\ ~Has(result, "slug")

\* A slug that matches nothing, with a customColor that two entries hold: the
\* first of them is returned.
C2_Witness ==
    /\ Resolved
    /\ Get(call.arg, "namedColor") # Undefined
    /\ Matches(colors, "slug", Get(call.arg, "namedColor")) = {}
    /\ Cardinality(Matches(colors, "color", Get(call.arg, "customColor"))) = 2
    /\ Has(result, "slug")
    /\ result = FirstMatch(colors, "color", Get(call.arg, "customColor"))

---------------------------------------------------------------------------
(* What the properties read off the state *)

borderColorNow == Get(attributes, "borderColor")
sideBorderColorsNow == Get(attributes, "sideBorderColors")
styleNow == Get(attributes, "style")
borderNow == Get(styleNow, "border")

Edited == call.op = "onBorderChange"
FlatEdit == Edited /\ call.arg \in FlatBorders
SplitEdit == Edited /\ call.arg \in SplitBorders

\* The slug of the first palette entry holding the literal colour.
SlugOf(literal) == Get(FirstMatch(colors, "color", literal), "slug")
InPalette(literal) == Matches(colors, "color", literal) # {}

---------------------------------------------------------------------------
(* Properties of an editing session, under Spec *)

\* C4: in every state reached from empty attributes by border edits and
\* resets, one representation only has its colour fields populated: after a
\* flat edit sideBorderColors is undefined and style.border has no entry for
\* a side; after a split edit borderColor is undefined and style.border has
\* no flat color; borderColor and sideBorderColors are never both defined.
C4_OneRepresentation ==
    /\ FlatEdit => /\ sideBorderColorsNow = Undefined
                   /\ \A side \in Sides : ~Has(borderNow, side)
    /\ SplitEdit => /\ borderColorNow = Undefined
                    /\ ~Has(borderNow, "color")
    /\ borderColorNow = Undefined \/ sideBorderColorsNow = Undefined

\* A split edit that stored a named side colour and a side entry in the
\* style, with no flat colour field beside them.
C4_Witness ==
    /\ SplitEdit
    /\ \E side \in Sides : Has(sideBorderColorsNow, side)
    /\ \E side \in Sides : Has(borderNow, side)
    /\ borderColorNow = Undefined

---------------------------------------------------------------------------
(* Properties of one edit or reset, under SpecEdit *)

\* C5: for every colour facet of the value given to onBorderChange (each
\* side of a split value, the one color of a flat value): when a palette
\* entry has that literal colour, the slug of the first such entry is written
\* to the named output (sideBorderColors[side], borderColor) and the facet's
\* stored literal colour is undefined; when no entry has it, the literal
\* stays in the stored style and the named output has no entry for the facet.
C5_NamedColorFilteredOut ==
    /\ SplitEdit =>
           \A side \in Sides :
               LET literal == Get(Get(call.arg, side), "color")
               IN  literal # Undefined =>
                       IF InPalette(literal)
                       THEN /\ Get(sideBorderColorsNow, side) = SlugOf(literal)
                            /\ Get(Get(borderNow, side), "color") = Undefined
                       ELSE /\ Get(Get(borderNow, side), "color") = literal
                            /\ ~Has(sideBorderColorsNow, side)
    /\ FlatEdit =>
           LET literal == Get(call.arg, "color")
           IN  literal # Undefined =>
                   IF InPalette(literal)
                   THEN /\ borderColorNow = SlugOf(literal)
                        /\ Get(borderNow, "color") = Undefined
                   ELSE /\ Get(borderNow, "color") = literal
                        /\ borderColorNow = Undefined

\* A flat edit whose colour two palette entries hold: the first one's slug
\* is stored and the literal is gone, the width stays.
C5_Witness ==
    /\ FlatEdit
    /\ Cardinality(Matches(colors, "color", Get(call.arg, "color"))) = 2
    /\ Cardinality({Get(EntryAt(colors, p), "slug") : p \in Positions(colors)}) = 2
    /\ borderColorNow = SlugOf(Get(call.arg, "color"))
    /\ Get(borderNow, "width") # Undefined
    /\ ~Has(borderNow, "color")

\* C6: when style.border.radius is present before a border edit or a border
\* reset, the style the operation writes has that same style.border.radius.
C6_RadiusKept ==
    (call.op \in {"onBorderChange", "resetBorder", "resetBorderFilter"}
        /\ call.radius # Undefined)
        => Get(borderNow, "radius") = call.radius

\* A reset of a border that had a radius and more: only the radius is left.
C6_Witness ==
    /\ call.op \in {"resetBorder", "resetBorderFilter"}
    /\ call.radius = Str("4px")
    /\ borderNow = Obj([radius |-> Str("4px")])
    /\ Get(styleNow, "color") # Undefined

\* No key whose value is undefined or an empty object, at any depth.
RECURSIVE NoEmptyValue(_)
NoEmptyValue(object) ==
    \A k \in DOMAIN Spread(object) :
        /\ object.f[k] # Undefined
        /\ object.f[k] # EmptyObject
        /\ NoEmptyValue(object.f[k])

\* C9: the style written by onBorderChange has no key, at any depth, whose
\* value is undefined or an empty object; with nothing left the style itself
\* is undefined, not an empty object.
C9_StyleCleaned ==
    Edited => /\ styleNow # EmptyObject
              /\ NoEmptyValue(styleNow)

\* A split edit of a named colour over a style that held an empty object:
\* every side and the style itself are cleaned away.
C9_Witness ==
    /\ SplitEdit
    /\ \E side \in Sides : Has(sideBorderColorsNow, side)
    /\ styleNow = Undefined

---------------------------------------------------------------------------
(* Properties of hydration, under SpecHydrate *)

Rendered == call.op = "getBorderObject"

Resolves(slug) == slug # Undefined /\ Matches(colors, "slug", slug) # {}
ColorOf(slug) == Get(FirstMatch(colors, "slug", slug), "color")

\* C7: with borderColor unset and sideBorderColors set, getBorderObject
\* returns style.border with, for every side whose slug resolves, that side's
\* object given the resolved color and its other fields kept; the sides with
\* no slug or a slug that does not resolve, and the keys that are no side,
\* are as stored, and no key other than a side is added.
C7_SidesHydrated ==
    (Rendered /\ borderColorNow = Undefined /\ sideBorderColorsNow # Undefined) =>
        /\ \A side \in Sides :
               IF Resolves(Get(sideBorderColorsNow, side))
               THEN Get(result, side) =
                        Obj(Merge(Spread(Get(borderNow, side)),
                                  [color |-> ColorOf(Get(sideBorderColorsNow, side))]))
               ELSE /\ Has(result, side) <=> Has(borderNow, side)
                    /\ Get(result, side) = Get(borderNow, side)
        /\ \A k \in (DOMAIN Spread(result) \cup DOMAIN Spread(borderNow)) \ Sides :
               /\ Has(result, k) /\ Has(borderNow, k)
               /\ result.f[k] = borderNow.f[k]

\* A side named with a slug that resolves, stored with a width and another
\* literal colour, beside a radius: the side gets the palette colour, keeps
\* its width, and the radius is as stored.
C7_Witness ==
    /\ Rendered /\ borderColorNow = Undefined
    /\ \E side \in Sides :
           /\ Resolves(Get(sideBorderColorsNow, side))
           /\ Has(Get(borderNow, side), "width")
           /\ Has(Get(borderNow, side), "color")
           /\ Get(Get(borderNow, side), "color") # Get(Get(result, side), "color")
           /\ Get(Get(result, side), "width") = Get(Get(borderNow, side), "width")
    /\ Get(result, "radius") = Str("4px")

\* C8: with borderColor set, getBorderObject does not look at
\* sideBorderColors: it returns style.border with color replaced by the
\* palette colour the slug resolves to and the other fields as stored, and
\* style.border as stored, literal colour included, when the slug does not
\* resolve.
C8_FlatHydrated ==
    (Rendered /\ borderColorNow # Undefined) =>
        IF Resolves(borderColorNow)
        THEN result = Obj(Merge(Spread(borderNow), [color |-> ColorOf(borderColorNow)]))
        ELSE result = borderNow

\* A borderColor that resolves, over a stored literal colour and width, with
\* a side colour that would resolve too: only the flat colour is replaced.
C8_Witness ==
    /\ Rendered /\ Resolves(borderColorNow)
    /\ \E side \in Sides : Resolves(Get(sideBorderColorsNow, side))
    /\ Has(borderNow, "width")
    /\ Has(borderNow, "color")
    /\ Get(borderNow, "color") # Get(result, "color")
    /\ \A side \in Sides : ~Has(result, side)

\* The colours a border value shows: the flat one and one per side.
EffectiveColors(border) ==
    [k \in {"flat"} \cup Sides |->
        IF k = "flat" THEN Get(border, "color") ELSE Get(Get(border, k), "color")]

---------------------------------------------------------------------------
(* The round trip, under SpecRoundTrip *)

\* C3: handing the hydrated border back to onBorderChange, storing what it
\* writes and hydrating again gives the same colour for the flat border and
\* for each side as the first hydration did.
C3_RoundTripKeepsColors ==
    call.op = "roundTrip" =>
        EffectiveColors(hydratedBorder) = EffectiveColors(call.arg)

---------------------------------------------------------------------------
(* Totality, under SpecTotal *)

\* C10: getMultiOriginColor, getBorderObject and onBorderChange complete
\* with a result whatever part of the attributes, of the new border value or
\* of the origins list is absent; none of them throws.
C10_NeverThrows == result # TypeError

---------------------------------------------------------------------------
(* Inputs left as they were, under SpecHeap *)

OnHeap == call.op \in {"getBorderObjectOnHeap", "onBorderChangeOnHeap"}

\* C11: getBorderObject and onBorderChange never mutate their inputs: after
\* either call every object that was passed in (the attributes with
\* style.border and its sides, the new border value with its sides, the
\* origins list with its origins and their entries) is deep-equal to what it
\* was before the call.
C11_InputsNotMutated ==
    OnHeap =>
        \A p \in DOMAIN call.before :
            Load(call.returned.heap, Ref(p)) = Load(call.before, Ref(p))

\* A split edit filtered a palette colour out of a side: the copy of the side
\* lost its colour, the side that was passed in still holds it.
C11_Witness ==
    /\ call.op = "onBorderChangeOnHeap"
    /\ \E side \in Sides :
           /\ <<"newBorder", side>> \in DOMAIN call.before
           /\ Truthy(Get(call.before[<<"newBorder", side>>], "color"))
           /\ Has(call.returned.heap[<<"new", "splitBorderStyles", side>>], "color")
           /\ Get(call.returned.heap[<<"new", "splitBorderStyles", side>>], "color")
                  = Undefined
           /\ Get(Get(result, "sideBorderColors"), side) # Undefined
           /\ call.returned.heap[<<"newBorder", side>>]
                  = call.before[<<"newBorder", side>>]

===========================================================================
